---- MODULE Spec2Model ----
(***************************************************************************)
(* Backend interop layer of the SYCL runtime: sycl/source/backend.cpp      *)
(* (getUrPlugin, convertBackend, convertUrBackend, make_platform,          *)
(* make_device, make_context, make_queue, make_event, make_kernel_bundle,  *)
(* make_kernel) and interop_handle::getNativeMem.                          *)
(*                                                                         *)
(* Spec: one client thread issues one API call at a time.  Every           *)
(* Plugin->call is one step; the backend (the UR adapter behind the        *)
(* plugin) answers each call with a result code chosen by the environment. *)
(* The calls of the current API call are recorded, in order, in `calls`.   *)
(*                                                                         *)
(* SpecConc: two client threads, one in make_kernel_bundle and one in      *)
(* make_kernel, interleaved at every step.  The variables hold the state   *)
(* of the running thread, `saved` that of the suspended one.               *)
(***************************************************************************)
EXTENDS Naturals, Sequences, FiniteSets

\* ---------------------------------------------------------------- bounds
MaxDevices == 2
MaxMemObjs == 2
MaxImages == 2
\* Devices of the program imported while another thread is importing.
MaxConcDevices == 1

\* ------------------------------------------------------------ value sets
Backends ==
  {"opencl", "ext_oneapi_level_zero", "ext_oneapi_cuda", "ext_oneapi_hip",
   "ext_intel_esimd_emulator", "ext_oneapi_native_cpu", "all"}

BundleStates == {"input", "object", "executable"}

\* ur_program_binary_type_t: the four enumerators the switch names, and
\* OTHER for any value outside them (the default: branch).
BinaryTypes == {"NONE", "COMPILED_OBJECT", "LIBRARY", "EXECUTABLE", "OTHER"}

\* ur_result_t as the code distinguishes it: success, the one result that
\* triggers the legacy fallback, and any other error.
UrResults == {"SUCCESS", "UNSUPPORTED_FEATURE", "ERROR"}

Devices == 1..MaxDevices

NullHandle == 0

Range(s) == {s[i] : i \in DOMAIN s}

\* The device lists a backend can enumerate for a program: the first n
\* devices, in ascending or in descending order of their handles.
HandleLists(max) ==
  {[i \in 1..n |-> i] : n \in 0..max} \cup
  {[i \in 1..n |-> n + 1 - i] : n \in 0..max}

DeviceLists == HandleLists(MaxDevices)

\* The device images of a kernel bundle handed to make_kernel, each named by
\* its program handle.
ImageLists == HandleLists(MaxImages)

\* Requirements and memory objects of a host task.
Requirements == 1..MaxMemObjs
MemObjects == 1..MaxMemObjs

RECURSIVE SeqsUpTo(_, _)
SeqsUpTo(S, n) ==
  IF n = 0 THEN {<<>>}
  ELSE LET shorter == SeqsUpTo(S, n - 1)
       IN shorter \cup
          {Append(q, x) : q \in {t \in shorter : Len(t) = n - 1}, x \in S}

\* pi_platform_backend: the enumerators, and values outside them.
PiBackendTags ==
  {"PI_EXT_PLATFORM_BACKEND_UNKNOWN", "PI_EXT_PLATFORM_BACKEND_LEVEL_ZERO",
   "PI_EXT_PLATFORM_BACKEND_OPENCL", "PI_EXT_PLATFORM_BACKEND_CUDA",
   "PI_EXT_PLATFORM_BACKEND_HIP", "PI_EXT_PLATFORM_BACKEND_ESIMD",
   "PI_EXT_PLATFORM_BACKEND_NATIVE_CPU"}

\* ur_platform_backend_t: the enumerators the switch names.
UrBackendTags ==
  {"UR_PLATFORM_BACKEND_LEVEL_ZERO", "UR_PLATFORM_BACKEND_OPENCL",
   "UR_PLATFORM_BACKEND_CUDA", "UR_PLATFORM_BACKEND_HIP",
   "UR_PLATFORM_BACKEND_NATIVE_CPU"}

\* Tag values neither switch names.
UnrecognizedTags == {"unrecognized_1", "unrecognized_2"}

\* The backends a context handed to an import can belong to.
ContextBackends == {"opencl", "ext_oneapi_level_zero"}

VARIABLES
  op,             \* the API call in progress ("idle" before any)
  pc,             \* position inside the call
  args,           \* the call's arguments
  calls,          \* backend calls issued by this call, in order
  result,         \* "none" while running, "ok", or the error raised
  ret,            \* the managed object returned
  UrProgram,      \* make_kernel_bundle / make_kernel: current program handle
  ProgramDevices, \* make_kernel_bundle: the discovered devices
  DevIdx,         \* make_kernel_bundle: position of the range-for
  BinaryType,     \* make_kernel_bundle: the type queried for *Dev
  Res,            \* make_kernel_bundle: result of call_nocheck
  progBin,        \* backend: handle -> (device -> binary type)
  nativeDevs,     \* backend: devices of the native program, in backend order
  MMemObjs,       \* interop_handle: captured (requirement, memory object)
  rerun,          \* TRUE in a second make_kernel_bundle on the produced program
  cur,            \* the calling thread that is running
  saved           \* the locals of the calling thread that is not running

vars ==
  <<op, pc, args, calls, result, ret, UrProgram, ProgramDevices, DevIdx,
    BinaryType, Res, progBin, nativeDevs, MMemObjs, rerun, cur, saved>>

mkbLocals == <<UrProgram, ProgramDevices, DevIdx, BinaryType, Res>>
backendState == <<progBin, nativeDevs>>
threads == <<cur, saved>>
callers == <<rerun, threads>>

\* ------------------------------------------------------- call records
NoArgs ==
  [Backend |-> "all", ctxBackend |-> "all", KeepOwnership |-> FALSE,
   State |-> "input", hasDevice |-> FALSE, computeIndex |-> FALSE,
   inOrder |-> FALSE, images |-> <<>>, Req |-> 0, tag |-> "none",
   NativeHandle |-> 1]

NoRet == [kind |-> "none", handle |-> NullHandle, devices |-> <<>>,
          state |-> "none", backend |-> "none"]

\* A backend call: the entry point, the handle it is about, a program and a
\* device argument where it takes one, the native properties, the result.
Call(fn, obj, dev, res) ==
  [fn |-> fn, obj |-> obj, prog |-> NullHandle, dev |-> dev,
   hasProps |-> FALSE, isNativeHandleOwned |-> FALSE, order |-> "none",
   out |-> "none", phProgram |-> NullHandle, res |-> res]

CreateCall(fn, obj, prog, dev, hasProps, owned, order, res) ==
  [fn |-> fn, obj |-> obj, prog |-> prog, dev |-> dev, hasProps |-> hasProps,
   isNativeHandleOwned |-> owned, order |-> order, out |-> "none",
   phProgram |-> NullHandle, res |-> res]

\* ------------------------------------------------------------ resolver
\* A resolver that also knows a call table for native-CPU.
getUrPluginWithNativeCpu(Backend) ==
  CASE Backend = "opencl" -> "plugin_opencl"
    [] Backend = "ext_oneapi_level_zero" -> "plugin_level_zero"
    [] Backend = "ext_oneapi_cuda" -> "plugin_cuda"
    [] Backend = "ext_oneapi_hip" -> "plugin_hip"
    [] Backend = "ext_oneapi_native_cpu" -> "plugin_native_cpu"
    [] OTHER -> "throw"

\* getUrPlugin: the call table of a backend, or "throw" (sycl::exception,
\* errc::runtime, "getUrPlugin: Unsupported backend").
getUrPlugin(Backend) ==
  CASE Backend = "opencl" -> "plugin_opencl"
    [] Backend = "ext_oneapi_level_zero" -> "plugin_level_zero"
    [] Backend = "ext_oneapi_cuda" -> "plugin_cuda"
    [] Backend = "ext_oneapi_hip" -> "plugin_hip"
    [] OTHER -> "throw"

\* ------------------------------------------------------ shared pieces
\* An exception leaves the API call: nothing is returned.
Throw(err) ==
  /\ pc' = "done"
  /\ result' = err
  /\ ret' = NoRet

\* The flag passed through without the negation.
IsNativeHandleOwnedNotInverted(KeepOwnership) == KeepOwnership

\* Properties.isNativeHandleOwned = !KeepOwnership
IsNativeHandleOwned(KeepOwnership) == ~KeepOwnership

\* A result check that lets every result pass.
checkUrResultIgnored(res) == "ok"

\* Plugin->call / checkUrResult: any result but success throws.
checkUrResult(res) == IF res = "SUCCESS" THEN "ok" ELSE "throw"

\* A fallback taken on any failure of the modern call.
NeedsLegacyOnAnyFailure(res) == res # "SUCCESS"

\* if (Res == UR_RESULT_ERROR_UNSUPPORTED_FEATURE) { Res = <legacy call> }
NeedsLegacy(res) == res = "UNSUPPORTED_FEATURE"

\* The first statement of every make_* function.
ResolvePlugin(next) ==
  /\ pc = "resolve"
  /\ IF getUrPlugin(args.Backend) = "throw"
       THEN Throw("UnsupportedBackend")
       ELSE /\ pc' = next
            /\ UNCHANGED <<result, ret>>
  /\ UNCHANGED <<op, args, calls, mkbLocals, backendState, MMemObjs, callers>>

\* ------------------------------------------------- make_kernel_bundle
\* A reconciler that links compiled programs whatever state is requested.
ReconcileActionAlwaysLink(bt, st) ==
  CASE bt = "NONE" ->
         IF st = "object" THEN "compile"
         ELSE IF st = "executable" THEN "build" ELSE "none"
    [] bt \in {"COMPILED_OBJECT", "LIBRARY"} ->
         IF st = "input" THEN "mismatch" ELSE "link"
    [] bt = "EXECUTABLE" ->
         IF st \in {"input", "object"} THEN "mismatch" ELSE "none"
    [] OTHER -> "none"

\* A switch whose default case throws the state mismatch.
ReconcileActionStrictDefault(bt, st) ==
  CASE bt = "NONE" ->
         IF st = "object" THEN "compile"
         ELSE IF st = "executable" THEN "build" ELSE "none"
    [] bt \in {"COMPILED_OBJECT", "LIBRARY"} ->
         IF st = "input" THEN "mismatch"
         ELSE IF st = "executable" THEN "link" ELSE "none"
    [] bt = "EXECUTABLE" ->
         IF st \in {"input", "object"} THEN "mismatch" ELSE "none"
    [] OTHER -> "mismatch"

\* A switch that compiles a source program whatever state is requested.
ReconcileActionCompileFirst(bt, st) ==
  CASE bt = "NONE" ->
         IF st \in {"object", "executable"} THEN "compile" ELSE "none"
    [] bt \in {"COMPILED_OBJECT", "LIBRARY"} ->
         IF st = "input" THEN "mismatch"
         ELSE IF st = "executable" THEN "link" ELSE "none"
    [] bt = "EXECUTABLE" ->
         IF st \in {"input", "object"} THEN "mismatch" ELSE "none"
    [] OTHER -> "none"

\* The switch over (BinaryType, State): what is done for one device.
ReconcileAction(bt, st) ==
  CASE bt = "NONE" ->
         IF st = "object" THEN "compile"
         ELSE IF st = "executable" THEN "build" ELSE "none"
    [] bt \in {"COMPILED_OBJECT", "LIBRARY"} ->
         IF st = "input" THEN "mismatch"
         ELSE IF st = "executable" THEN "link" ELSE "none"
    [] bt = "EXECUTABLE" ->
         IF st \in {"input", "object"} THEN "mismatch" ELSE "none"
    [] OTHER -> "none"

ModernFn(kind) ==
  CASE kind = "compile" -> "urProgramCompileExp"
    [] kind = "build" -> "urProgramBuildExp"
    [] kind = "link" -> "urProgramLinkExp"

LegacyFn(kind) ==
  CASE kind = "compile" -> "urProgramCompile"
    [] kind = "build" -> "urProgramBuild"
    [] kind = "link" -> "urProgramLink"

ModernFns == {"urProgramCompileExp", "urProgramBuildExp", "urProgramLinkExp"}
LegacyFns == {"urProgramCompile", "urProgramBuild", "urProgramLink"}
BuildFns == ModernFns \cup LegacyFns

\* A loop that takes the first device at every iteration.
CurDevFirst == ProgramDevices[1]

\* for (auto &Dev : ProgramDevices)
CurDev == ProgramDevices[DevIdx]

\* Backend: the handle of the program a successful link creates.
LinkedHandle(bin) == Len(bin) + 1

LinkFns == {"urProgramLinkExp", "urProgramLink"}

\* Backend: what a compile/build/link call stores through phProgram.
LinkResult(fn, r) ==
  IF fn \in LinkFns /\ r = "SUCCESS" THEN LinkedHandle(progBin)
  ELSE NullHandle

\* A link whose result program is dropped: UrProgram keeps its value.
LinkOutputDiscarded(new, old) == old

\* The last argument of urProgramLinkExp / urProgramLink is &UrProgram: the
\* linked program overwrites the local.
LinkOutput(new, old) == new

\* Backend: a successful compile or build leaves the covered devices of the
\* program CompiledObject / Executable.
CompiledBin(bin, prog, covered, type) ==
  [bin EXCEPT ![prog] = [d \in DOMAIN bin[prog] |->
                           IF d \in covered THEN type ELSE bin[prog][d]]]

\* Backend: a successful link yields a new program, Executable for the
\* devices the link covers.  What the new program reports for a device the
\* link did not cover is the backend's choice: the type the input program
\* had (a link in place), NONE (a program built for the listed devices
\* only) or EXECUTABLE (one state for the whole program).
LinkedPrograms(bin, prog, covered) ==
  {[d \in DOMAIN bin[prog] |->
      IF d \in covered THEN "EXECUTABLE"
      ELSE IF o = "same" THEN bin[prog][d] ELSE o] :
     o \in {"same", "NONE", "EXECUTABLE"}}

\* The modern entry points take one device, the legacy ones the program.
Covered(fn) == IF fn \in ModernFns THEN {CurDev} ELSE Range(nativeDevs)

\* The effect of a compile/build/link call with result r on the backend's
\* programs and on UrProgram (the link's out-parameter).
BackendBuild(fn, r) ==
  IF r # "SUCCESS"
    THEN UNCHANGED <<progBin, UrProgram>>
    ELSE IF fn \in {"urProgramCompileExp", "urProgramCompile"}
      THEN /\ progBin' = CompiledBin(progBin, UrProgram, Covered(fn),
                                     "COMPILED_OBJECT")
           /\ UNCHANGED UrProgram
      ELSE IF fn \in {"urProgramBuildExp", "urProgramBuild"}
        THEN /\ progBin' = CompiledBin(progBin, UrProgram, Covered(fn),
                                       "EXECUTABLE")
             /\ UNCHANGED UrProgram
        ELSE \E p \in LinkedPrograms(progBin, UrProgram, Covered(fn)) :
               /\ progBin' = Append(progBin, p)
               /\ UrProgram' = LinkOutput(LinkedHandle(progBin), UrProgram)

\* A caller imports a native program: the backend knows its devices and the
\* binary type of each.
CallMakeKernelBundle ==
  /\ pc = "idle"
  /\ \E b \in Backends, cb \in ContextBackends, keep \in BOOLEAN,
        st \in BundleStates, devs \in DeviceLists :
       \E types \in [Range(devs) -> BinaryTypes] :
         /\ args' = [NoArgs EXCEPT !.Backend = b, !.ctxBackend = cb,
                                   !.KeepOwnership = keep, !.State = st]
         /\ nativeDevs' = devs
         /\ progBin' = <<types>>
  /\ op' = "make_kernel_bundle"
  /\ pc' = "resolve"
  /\ UNCHANGED <<calls, result, ret, mkbLocals, MMemObjs, callers>>

\* The 4-argument overload: KeepOwnership = false.
CallMakeKernelBundleDefault ==
  /\ pc = "idle"
  /\ \E b \in Backends, cb \in ContextBackends, st \in BundleStates,
        devs \in DeviceLists :
       \E types \in [Range(devs) -> BinaryTypes] :
         /\ args' = [NoArgs EXCEPT !.Backend = b, !.ctxBackend = cb,
                                   !.KeepOwnership = FALSE, !.State = st]
         /\ nativeDevs' = devs
         /\ progBin' = <<types>>
  /\ op' = "make_kernel_bundle"
  /\ pc' = "resolve"
  /\ UNCHANGED <<calls, result, ret, mkbLocals, MMemObjs, callers>>

MkbGetUrPlugin ==
  /\ op = "make_kernel_bundle"
  /\ ResolvePlugin("create")

\* Plugin->call(urProgramCreateWithNativeHandle, ...)
MkbCreate ==
  /\ op = "make_kernel_bundle" /\ pc = "create"
  /\ \E r \in UrResults :
       /\ calls' = Append(calls,
            CreateCall("urProgramCreateWithNativeHandle", args.NativeHandle,
                       NullHandle, 0, TRUE,
                       IsNativeHandleOwned(args.KeepOwnership), "none", r))
       /\ IF checkUrResult(r) = "throw"
            THEN /\ Throw("BackendCallFailed")
                 /\ UNCHANGED UrProgram
            ELSE /\ UrProgram' = args.NativeHandle
                 /\ pc' = "retain"
                 /\ UNCHANGED <<result, ret>>
  /\ UNCHANGED <<op, args, ProgramDevices, DevIdx, BinaryType, Res,
                 backendState, MMemObjs, callers>>

\* A retain decided by the Backend argument instead of the context.
MkbNeedsRetainByBackend(a) == a.Backend = "opencl"

\* if (ContextImpl->getBackend() == backend::opencl) urProgramRetain
MkbNeedsRetain(a) == a.ctxBackend = "opencl"

MkbRetain ==
  /\ op = "make_kernel_bundle" /\ pc = "retain"
  /\ MkbNeedsRetain(args)
  /\ \E r \in UrResults :
       /\ calls' = Append(calls, Call("urProgramRetain", UrProgram, 0, r))
       /\ IF checkUrResult(r) = "throw"
            THEN Throw("BackendCallFailed")
            ELSE /\ pc' = "numdev"
                 /\ UNCHANGED <<result, ret>>
  /\ UNCHANGED <<op, args, mkbLocals, backendState, MMemObjs, callers>>

MkbNoRetain ==
  /\ op = "make_kernel_bundle" /\ pc = "retain"
  /\ ~MkbNeedsRetain(args)
  /\ pc' = "numdev"
  /\ UNCHANGED <<op, args, calls, result, ret, mkbLocals, backendState,
                 MMemObjs, callers>>

\* urProgramGetInfo(UR_PROGRAM_INFO_NUM_DEVICES)
MkbNumDevices ==
  /\ op = "make_kernel_bundle" /\ pc = "numdev"
  /\ \E r \in UrResults :
       /\ calls' = Append(calls,
            Call("urProgramGetInfo_NUM_DEVICES", UrProgram, 0, r))
       /\ IF checkUrResult(r) = "throw"
            THEN Throw("BackendCallFailed")
            ELSE /\ pc' = "devices"
                 /\ UNCHANGED <<result, ret>>
  /\ UNCHANGED <<op, args, mkbLocals, backendState, MMemObjs, callers>>

\* urProgramGetInfo(UR_PROGRAM_INFO_DEVICES) fills ProgramDevices
MkbDevices ==
  /\ op = "make_kernel_bundle" /\ pc = "devices"
  /\ \E r \in UrResults :
       /\ calls' = Append(calls,
            Call("urProgramGetInfo_DEVICES", UrProgram, 0, r))
       /\ IF checkUrResult(r) = "throw"
            THEN /\ Throw("BackendCallFailed")
                 /\ UNCHANGED <<ProgramDevices, DevIdx>>
            ELSE /\ ProgramDevices' = nativeDevs
                 /\ DevIdx' = 1
                 /\ pc' = "loop"
                 /\ UNCHANGED <<result, ret>>
  /\ UNCHANGED <<op, args, UrProgram, BinaryType, Res, backendState,
                 MMemObjs, callers>>

\* for (auto &Dev : ProgramDevices) urProgramGetBuildInfo(UrProgram, Dev)
MkbQueryBinaryType ==
  /\ op = "make_kernel_bundle" /\ pc = "loop"
  /\ DevIdx <= Len(ProgramDevices)
  /\ \E r \in UrResults :
       /\ calls' = Append(calls,
            [Call("urProgramGetBuildInfo", UrProgram, CurDev, r)
               EXCEPT !.out = IF r = "SUCCESS"
                               THEN progBin[UrProgram][CurDev]
                               ELSE "none"])
       /\ IF checkUrResult(r) = "throw"
            THEN /\ Throw("BackendCallFailed")
                 /\ UNCHANGED BinaryType
            ELSE /\ BinaryType' = progBin[UrProgram][CurDev]
                 /\ pc' = "switch"
                 /\ UNCHANGED <<result, ret>>
  /\ UNCHANGED <<op, args, UrProgram, ProgramDevices, DevIdx, Res,
                 backendState, MMemObjs, callers>>

\* break: nothing to do for this device
MkbBreak ==
  /\ op = "make_kernel_bundle" /\ pc = "switch"
  /\ ReconcileAction(BinaryType, args.State) = "none"
  /\ DevIdx' = DevIdx + 1
  /\ pc' = "loop"
  /\ UNCHANGED <<op, args, calls, result, ret, UrProgram, ProgramDevices,
                 BinaryType, Res, backendState, MMemObjs, callers>>

\* throw "Program and kernel_bundle state mismatch"
MkbMismatch ==
  /\ op = "make_kernel_bundle" /\ pc = "switch"
  /\ ReconcileAction(BinaryType, args.State) = "mismatch"
  /\ Throw("StateMismatch")
  /\ UNCHANGED <<op, args, calls, mkbLocals, backendState, MMemObjs, callers>>

\* auto Res = Plugin->call_nocheck(ur...Exp, ...)
MkbModern ==
  /\ op = "make_kernel_bundle" /\ pc = "switch"
  /\ ReconcileAction(BinaryType, args.State) \in {"compile", "build", "link"}
  /\ LET fn == ModernFn(ReconcileAction(BinaryType, args.State)) IN
     \E r \in UrResults :
       /\ calls' = Append(calls,
            [Call(fn, UrProgram, CurDev, r)
               EXCEPT !.phProgram = LinkResult(fn, r)])
       /\ Res' = r
       /\ BackendBuild(fn, r)
       /\ pc' = IF NeedsLegacy(r) THEN "legacy" ELSE "check"
  /\ UNCHANGED <<op, args, result, ret, ProgramDevices, DevIdx, BinaryType,
                 nativeDevs, MMemObjs, callers>>

\* Res = Plugin->call_nocheck(<legacy whole-program entry point>, ...)
MkbLegacy ==
  /\ op = "make_kernel_bundle" /\ pc = "legacy"
  /\ LET fn == LegacyFn(ReconcileAction(BinaryType, args.State)) IN
     \E r \in UrResults :
       /\ calls' = Append(calls,
            [Call(fn, UrProgram, 0, r)
               EXCEPT !.phProgram = LinkResult(fn, r)])
       /\ Res' = r
       /\ BackendBuild(fn, r)
       /\ pc' = "check"
  /\ UNCHANGED <<op, args, result, ret, ProgramDevices, DevIdx, BinaryType,
                 nativeDevs, MMemObjs, callers>>

\* Plugin->checkUrResult<errc::build>(Res); break;
MkbCheckResult ==
  /\ op = "make_kernel_bundle" /\ pc = "check"
  /\ IF checkUrResult(Res) = "throw"
       THEN /\ Throw("BuildFailed")
            /\ UNCHANGED DevIdx
       ELSE /\ DevIdx' = DevIdx + 1
            /\ pc' = "loop"
            /\ UNCHANGED <<result, ret>>
  /\ UNCHANGED <<op, args, calls, UrProgram, ProgramDevices, BinaryType, Res,
                 backendState, MMemObjs, callers>>

\* createSyclObjFromImpl<device>(Platform->getOrMakeDeviceImpl(Dev, Platform))
DeviceOf(Dev) == [kind |-> "device", handle |-> Dev]

\* A transform that fills Devices from the back of ProgramDevices.
DevicesOfReversed(pd) ==
  [i \in DOMAIN pd |-> DeviceOf(pd[Len(pd) + 1 - i])]

\* std::transform(ProgramDevices.begin(), ProgramDevices.end(),
\*                std::back_inserter(Devices), ...)
DevicesOf(pd) == [i \in DOMAIN pd |-> DeviceOf(pd[i])]

\* After the loop: the devices, the device image and the kernel bundle.
MkbReturn ==
  /\ op = "make_kernel_bundle" /\ pc = "loop"
  /\ DevIdx > Len(ProgramDevices)
  /\ ret' = [NoRet EXCEPT !.kind = "kernel_bundle", !.handle = UrProgram,
                          !.devices = DevicesOf(ProgramDevices),
                          !.state = args.State]
  /\ result' = "ok"
  /\ pc' = "done"
  /\ UNCHANGED <<op, args, calls, mkbLocals, backendState, MMemObjs, callers>>

\* The caller imports, with the same arguments, the program the first call
\* produced.
CallMakeKernelBundleAgain ==
  /\ op = "make_kernel_bundle" /\ pc = "done" /\ result = "ok"
  /\ ~rerun
  /\ rerun' = TRUE
  /\ args' = [args EXCEPT !.NativeHandle = ret.handle]
  /\ pc' = "resolve"
  /\ calls' = <<>>
  /\ result' = "none"
  /\ ret' = NoRet
  /\ UrProgram' = NullHandle
  /\ ProgramDevices' = <<>>
  /\ DevIdx' = 0
  /\ BinaryType' = "NONE"
  /\ Res' = "SUCCESS"
  /\ UNCHANGED <<op, backendState, MMemObjs, threads>>

MakeKernelBundle ==
  \/ MkbGetUrPlugin
  \/ MkbCreate
  \/ MkbRetain
  \/ MkbNoRetain
  \/ MkbNumDevices
  \/ MkbDevices
  \/ MkbQueryBinaryType
  \/ MkbBreak
  \/ MkbMismatch
  \/ MkbModern
  \/ MkbLegacy
  \/ MkbCheckResult
  \/ MkbReturn

\* --------------------------------------------------- tag conversions
\* A convertBackend whose switch ends in default: return backend::all.
convertBackendDefaultAll(PiBackend) ==
  CASE PiBackend = "PI_EXT_PLATFORM_BACKEND_UNKNOWN" -> "all"
    [] PiBackend = "PI_EXT_PLATFORM_BACKEND_LEVEL_ZERO" ->
         "ext_oneapi_level_zero"
    [] PiBackend = "PI_EXT_PLATFORM_BACKEND_OPENCL" -> "opencl"
    [] PiBackend = "PI_EXT_PLATFORM_BACKEND_CUDA" -> "ext_oneapi_cuda"
    [] PiBackend = "PI_EXT_PLATFORM_BACKEND_HIP" -> "ext_oneapi_hip"
    [] PiBackend = "PI_EXT_PLATFORM_BACKEND_ESIMD" ->
         "ext_intel_esimd_emulator"
    [] PiBackend = "PI_EXT_PLATFORM_BACKEND_NATIVE_CPU" ->
         "ext_oneapi_native_cpu"
    [] OTHER -> "all"

\* convertBackend: the BackendKind of an older-generation tag, or "throw"
\* (sycl::runtime_error "convertBackend: Unsupported backend").
convertBackend(PiBackend) ==
  CASE PiBackend = "PI_EXT_PLATFORM_BACKEND_UNKNOWN" -> "all"
    [] PiBackend = "PI_EXT_PLATFORM_BACKEND_LEVEL_ZERO" ->
         "ext_oneapi_level_zero"
    [] PiBackend = "PI_EXT_PLATFORM_BACKEND_OPENCL" -> "opencl"
    [] PiBackend = "PI_EXT_PLATFORM_BACKEND_CUDA" -> "ext_oneapi_cuda"
    [] PiBackend = "PI_EXT_PLATFORM_BACKEND_HIP" -> "ext_oneapi_hip"
    [] PiBackend = "PI_EXT_PLATFORM_BACKEND_ESIMD" ->
         "ext_intel_esimd_emulator"
    [] PiBackend = "PI_EXT_PLATFORM_BACKEND_NATIVE_CPU" ->
         "ext_oneapi_native_cpu"
    [] OTHER -> "throw"

\* convertUrBackend: the BackendKind of a newer-generation tag.
convertUrBackend(UrBackend) ==
  CASE UrBackend = "UR_PLATFORM_BACKEND_LEVEL_ZERO" -> "ext_oneapi_level_zero"
    [] UrBackend = "UR_PLATFORM_BACKEND_OPENCL" -> "opencl"
    [] UrBackend = "UR_PLATFORM_BACKEND_CUDA" -> "ext_oneapi_cuda"
    [] UrBackend = "UR_PLATFORM_BACKEND_HIP" -> "ext_oneapi_hip"
    [] UrBackend = "UR_PLATFORM_BACKEND_NATIVE_CPU" -> "ext_oneapi_native_cpu"
    [] OTHER -> "all"

CallConvertBackend ==
  /\ pc = "idle"
  /\ \E t \in PiBackendTags \cup UnrecognizedTags :
       args' = [NoArgs EXCEPT !.tag = t]
  /\ op' = "convertBackend"
  /\ pc' = "convert"
  /\ UNCHANGED <<calls, result, ret, mkbLocals, backendState, MMemObjs,
                 callers>>

ConvertBackend ==
  /\ op = "convertBackend" /\ pc = "convert"
  /\ IF convertBackend(args.tag) = "throw"
       THEN Throw("RuntimeError")
       ELSE /\ ret' = [NoRet EXCEPT !.kind = "backend",
                                    !.backend = convertBackend(args.tag)]
            /\ result' = "ok"
            /\ pc' = "done"
  /\ UNCHANGED <<op, args, calls, mkbLocals, backendState, MMemObjs, callers>>

CallConvertUrBackend ==
  /\ pc = "idle"
  /\ \E t \in UrBackendTags \cup UnrecognizedTags :
       args' = [NoArgs EXCEPT !.tag = t]
  /\ op' = "convertUrBackend"
  /\ pc' = "convert"
  /\ UNCHANGED <<calls, result, ret, mkbLocals, backendState, MMemObjs,
                 callers>>

ConvertUrBackend ==
  /\ op = "convertUrBackend" /\ pc = "convert"
  /\ ret' = [NoRet EXCEPT !.kind = "backend",
                          !.backend = convertUrBackend(args.tag)]
  /\ result' = "ok"
  /\ pc' = "done"
  /\ UNCHANGED <<op, args, calls, mkbLocals, backendState, MMemObjs, callers>>

\* ------------------------------------------------------ the importers
\* The entry points whose signature has a KeepOwnership parameter.
HasKeepOwnership(o) ==
  o \in {"make_queue", "make_event", "make_kernel", "make_kernel_bundle"}

\* The frame of a step of an importer that touches no program state.
ImporterFrame ==
  UNCHANGED <<op, args, mkbLocals, backendState, MMemObjs, callers>>

\* A create-from-native-handle call that ends the import: the managed object
\* on success, an exception otherwise.
CreateAndReturn(call, kind) ==
  /\ calls' = Append(calls, call)
  /\ IF checkUrResult(call.res) = "throw"
       THEN Throw("BackendCallFailed")
       ELSE /\ ret' = [NoRet EXCEPT !.kind = kind, !.handle = call.obj]
            /\ result' = "ok"
            /\ pc' = "done"

\* A create-from-native-handle call followed by more steps.
CreateThen(call, next) ==
  /\ calls' = Append(calls, call)
  /\ IF checkUrResult(call.res) = "throw"
       THEN Throw("BackendCallFailed")
       ELSE /\ pc' = next
            /\ UNCHANGED <<result, ret>>

\* make_platform(NativeHandle, Backend)
CallMakePlatform ==
  /\ pc = "idle"
  /\ \E b \in Backends : args' = [NoArgs EXCEPT !.Backend = b]
  /\ op' = "make_platform"
  /\ pc' = "resolve"
  /\ UNCHANGED <<calls, result, ret, mkbLocals, backendState, MMemObjs,
                 callers>>

MakePlatformGetUrPlugin ==
  /\ op = "make_platform"
  /\ ResolvePlugin("create")

MakePlatformCreate ==
  /\ op = "make_platform" /\ pc = "create"
  /\ \E r \in UrResults :
       CreateAndReturn(
         CreateCall("urPlatformCreateWithNativeHandle", args.NativeHandle,
                    NullHandle, 0, FALSE, FALSE, "none", r), "platform")
  /\ ImporterFrame

\* make_device(NativeHandle, Backend)
CallMakeDevice ==
  /\ pc = "idle"
  /\ \E b \in Backends : args' = [NoArgs EXCEPT !.Backend = b]
  /\ op' = "make_device"
  /\ pc' = "resolve"
  /\ UNCHANGED <<calls, result, ret, mkbLocals, backendState, MMemObjs,
                 callers>>

MakeDeviceGetUrPlugin ==
  /\ op = "make_device"
  /\ ResolvePlugin("create")

MakeDeviceCreate ==
  /\ op = "make_device" /\ pc = "create"
  /\ \E r \in UrResults :
       CreateAndReturn(
         CreateCall("urDeviceCreateWithNativeHandle", args.NativeHandle,
                    NullHandle, 0, FALSE, FALSE, "none", r), "device")
  /\ ImporterFrame

\* make_context(NativeHandle, Handler, Backend)
CallMakeContext ==
  /\ pc = "idle"
  /\ \E b \in Backends : args' = [NoArgs EXCEPT !.Backend = b]
  /\ op' = "make_context"
  /\ pc' = "resolve"
  /\ UNCHANGED <<calls, result, ret, mkbLocals, backendState, MMemObjs,
                 callers>>

MakeContextGetUrPlugin ==
  /\ op = "make_context"
  /\ ResolvePlugin("create")

\* Properties.isNativeHandleOwned = false;
MakeContextOwned == FALSE

MakeContextCreate ==
  /\ op = "make_context" /\ pc = "create"
  /\ \E r \in UrResults :
       CreateAndReturn(
         CreateCall("urContextCreateWithNativeHandle", args.NativeHandle,
                    NullHandle, 0, TRUE, MakeContextOwned, "none", r),
         "context")
  /\ ImporterFrame

\* make_queue(NativeHandle, NativeHandleDesc, Context, Device, KeepOwnership,
\*            PropList, Handler, Backend)
CallMakeQueue ==
  /\ pc = "idle"
  /\ \E b \in Backends, cb \in ContextBackends, keep \in BOOLEAN,
        hasDev \in BOOLEAN, ci \in BOOLEAN, ord \in BOOLEAN :
       args' = [NoArgs EXCEPT !.Backend = b, !.ctxBackend = cb,
                              !.KeepOwnership = keep, !.hasDevice = hasDev,
                              !.computeIndex = ci, !.inOrder = ord]
  /\ op' = "make_queue"
  /\ pc' = "resolve"
  /\ UNCHANGED <<calls, result, ret, mkbLocals, backendState, MMemObjs,
                 callers>>

MakeQueueGetUrPlugin ==
  /\ op = "make_queue"
  /\ ResolvePlugin("validate")

\* A validation that rejects compute_index only on out-of-order queues.
MakeQueueRejectsOutOfOrderOnly(a) == a.computeIndex /\ ~a.inOrder

\* if (PropList.has_property<compute_index>()) throw
MakeQueueRejects(a) == a.computeIndex

MakeQueueValidate ==
  /\ op = "make_queue" /\ pc = "validate"
  /\ IF MakeQueueRejects(args)
       THEN Throw("InvalidConfiguration")
       ELSE /\ pc' = "create"
            /\ UNCHANGED <<result, ret>>
  /\ UNCHANGED calls
  /\ ImporterFrame

\* has_property<in_order>() ? QueueOrder::Ordered : QueueOrder::OOO
QueueOrderOf(a) == IF a.inOrder THEN "Ordered" ELSE "OOO"

\* Device ? getSyclObjImpl(*Device)->getUrHandleRef() : nullptr
QueueDeviceOf(a) == IF a.hasDevice THEN 1 ELSE NullHandle

MakeQueueCreate ==
  /\ op = "make_queue" /\ pc = "create"
  /\ \E r \in UrResults :
       CreateAndReturn(
         CreateCall("urQueueCreateWithNativeHandle", args.NativeHandle,
                    NullHandle, QueueDeviceOf(args), TRUE,
                    IsNativeHandleOwned(args.KeepOwnership),
                    QueueOrderOf(args), r), "queue")
  /\ ImporterFrame

\* make_event(NativeHandle, Context, KeepOwnership, Backend)
CallMakeEvent ==
  /\ pc = "idle"
  /\ \E b \in Backends, cb \in ContextBackends, keep \in BOOLEAN :
       args' = [NoArgs EXCEPT !.Backend = b, !.ctxBackend = cb,
                              !.KeepOwnership = keep]
  /\ op' = "make_event"
  /\ pc' = "resolve"
  /\ UNCHANGED <<calls, result, ret, mkbLocals, backendState, MMemObjs,
                 callers>>

\* make_event(NativeHandle, Context, Backend): KeepOwnership = false
CallMakeEventDefault ==
  /\ pc = "idle"
  /\ \E b \in Backends, cb \in ContextBackends :
       args' = [NoArgs EXCEPT !.Backend = b, !.ctxBackend = cb,
                              !.KeepOwnership = FALSE]
  /\ op' = "make_event"
  /\ pc' = "resolve"
  /\ UNCHANGED <<calls, result, ret, mkbLocals, backendState, MMemObjs,
                 callers>>

MakeEventGetUrPlugin ==
  /\ op = "make_event"
  /\ ResolvePlugin("create")

MakeEventCreate ==
  /\ op = "make_event" /\ pc = "create"
  /\ \E r \in UrResults :
       CreateThen(
         CreateCall("urEventCreateWithNativeHandle", args.NativeHandle,
                    NullHandle, 0, TRUE,
                    IsNativeHandleOwned(args.KeepOwnership), "none", r),
         "retain")
  /\ ImporterFrame

\* A retain decided by the context's backend instead of the argument.
NeedsRetainByContext(a) == a.ctxBackend = "opencl"

\* if (Backend == backend::opencl)
NeedsRetain(a) == a.Backend = "opencl"

\* The retain that follows the create call of an event or a kernel, then the
\* return of the managed object.
RetainAndReturn(fn, kind) ==
  /\ pc = "retain"
  /\ IF NeedsRetain(args)
       THEN \E r \in UrResults :
              /\ calls' = Append(calls, Call(fn, args.NativeHandle, 0, r))
              /\ IF checkUrResult(r) = "throw"
                   THEN Throw("BackendCallFailed")
                   ELSE /\ ret' = [NoRet EXCEPT !.kind = kind,
                                                !.handle = args.NativeHandle]
                        /\ result' = "ok"
                        /\ pc' = "done"
       ELSE /\ ret' = [NoRet EXCEPT !.kind = kind,
                                    !.handle = args.NativeHandle]
            /\ result' = "ok"
            /\ pc' = "done"
            /\ UNCHANGED calls

MakeEventRetain ==
  /\ op = "make_event"
  /\ RetainAndReturn("urEventRetain", "event")
  /\ ImporterFrame

\* make_kernel(TargetContext, KernelBundle, NativeHandle, KeepOwnership,
\*             Backend)
CallMakeKernel ==
  /\ pc = "idle"
  /\ \E b \in Backends, cb \in ContextBackends, keep \in BOOLEAN,
        imgs \in ImageLists :
       args' = [NoArgs EXCEPT !.Backend = b, !.ctxBackend = cb,
                              !.KeepOwnership = keep, !.images = imgs]
  /\ op' = "make_kernel"
  /\ pc' = "resolve"
  /\ UNCHANGED <<calls, result, ret, mkbLocals, backendState, MMemObjs,
                 callers>>

\* make_kernel(NativeHandle, TargetContext, Backend): the empty interop
\* kernel bundle, KeepOwnership = false
CallMakeKernelDefault ==
  /\ pc = "idle"
  /\ \E b \in Backends, cb \in ContextBackends :
       args' = [NoArgs EXCEPT !.Backend = b, !.ctxBackend = cb,
                              !.KeepOwnership = FALSE, !.images = <<>>]
  /\ op' = "make_kernel"
  /\ pc' = "resolve"
  /\ UNCHANGED <<calls, result, ret, mkbLocals, backendState, MMemObjs,
                 callers>>

MakeKernelGetUrPlugin ==
  /\ op = "make_kernel"
  /\ ResolvePlugin("images")

\* if (Backend == backend::ext_oneapi_level_zero)
NeedsProgram(a) == a.Backend = "ext_oneapi_level_zero"

\* A check that accepts any non-empty bundle.
SingleImageOrMore(a) == Len(a.images) >= 1

\* if (KernelBundleImpl->size() != 1) throw
SingleImage(a) == Len(a.images) = 1

MakeKernelProgram ==
  /\ op = "make_kernel" /\ pc = "images"
  /\ IF NeedsProgram(args)
       THEN IF ~SingleImage(args)
              THEN /\ Throw("RuntimeError")
                   /\ UNCHANGED UrProgram
              ELSE /\ UrProgram' = args.images[1]
                   /\ pc' = "create"
                   /\ UNCHANGED <<result, ret>>
       ELSE /\ pc' = "create"
            /\ UNCHANGED <<result, ret, UrProgram>>
  /\ UNCHANGED <<op, args, calls, ProgramDevices, DevIdx, BinaryType, Res,
                 backendState, MMemObjs, callers>>

MakeKernelCreate ==
  /\ op = "make_kernel" /\ pc = "create"
  /\ \E r \in UrResults :
       CreateThen(
         CreateCall("urKernelCreateWithNativeHandle", args.NativeHandle,
                    UrProgram, 0, TRUE,
                    IsNativeHandleOwned(args.KeepOwnership), "none", r),
         "retain")
  /\ ImporterFrame

MakeKernelRetain ==
  /\ op = "make_kernel"
  /\ RetainAndReturn("urKernelRetain", "kernel")
  /\ ImporterFrame

\* --------------------------------------------- interop_handle::getNativeMem
\* A search that keeps the last match instead of the first.
RECURSIVE FindLastFrom(_, _, _)
FindLastFrom(objs, Req, i) ==
  IF i = 0 THEN Len(objs) + 1
  ELSE IF objs[i][1] = Req THEN i
  ELSE FindLastFrom(objs, Req, i - 1)

FindIfLast(objs, Req) == FindLastFrom(objs, Req, Len(objs))

\* std::find_if over MMemObjs: the first position whose requirement is Req,
\* or Len + 1 (std::end).
RECURSIVE FindIfFrom(_, _, _)
FindIfFrom(objs, Req, i) ==
  IF i > Len(objs) THEN i
  ELSE IF objs[i][1] = Req THEN i
  ELSE FindIfFrom(objs, Req, i + 1)

FindIf(objs, Req) == FindIfFrom(objs, Req, 1)

\* A host task with its captured associations asks for a requirement.
CallGetNativeMem ==
  /\ pc = "idle"
  /\ \E objs \in SeqsUpTo(Requirements \X MemObjects, MaxMemObjs),
        req \in Requirements :
       /\ MMemObjs' = objs
       /\ args' = [NoArgs EXCEPT !.Req = req]
  /\ op' = "getNativeMem"
  /\ pc' = "find"
  /\ UNCHANGED <<calls, result, ret, mkbLocals, backendState, callers>>

\* if (Iter == std::end(MMemObjs)) throw invalid_object_error
GetNativeMemNotFound ==
  /\ op = "getNativeMem" /\ pc = "find"
  /\ FindIf(MMemObjs, args.Req) > Len(MMemObjs)
  /\ Throw("InvalidObjectReference")
  /\ UNCHANGED <<op, args, calls, mkbLocals, backendState, MMemObjs, callers>>

\* Plugin->call(urMemGetNativeHandle, Iter->second, ...)
GetNativeMemQuery ==
  /\ op = "getNativeMem" /\ pc = "find"
  /\ FindIf(MMemObjs, args.Req) <= Len(MMemObjs)
  /\ LET mem == MMemObjs[FindIf(MMemObjs, args.Req)][2] IN
     \E r \in UrResults :
       /\ calls' = Append(calls, Call("urMemGetNativeHandle", mem, 0, r))
       /\ IF checkUrResult(r) = "throw"
            THEN Throw("BackendCallFailed")
            ELSE /\ ret' = [NoRet EXCEPT !.kind = "native_handle",
                                         !.handle = mem]
                 /\ result' = "ok"
                 /\ pc' = "done"
  /\ UNCHANGED <<op, args, mkbLocals, backendState, MMemObjs, callers>>

Importers ==
  \/ MakePlatformGetUrPlugin
  \/ MakePlatformCreate
  \/ MakeDeviceGetUrPlugin
  \/ MakeDeviceCreate
  \/ MakeContextGetUrPlugin
  \/ MakeContextCreate
  \/ MakeQueueGetUrPlugin
  \/ MakeQueueValidate
  \/ MakeQueueCreate
  \/ MakeEventGetUrPlugin
  \/ MakeEventCreate
  \/ MakeEventRetain
  \/ MakeKernelGetUrPlugin
  \/ MakeKernelProgram
  \/ MakeKernelCreate
  \/ MakeKernelRetain

Calls ==
  \/ CallMakePlatform
  \/ CallMakeDevice
  \/ CallMakeContext
  \/ CallMakeQueue
  \/ CallMakeEvent
  \/ CallMakeEventDefault
  \/ CallMakeKernel
  \/ CallMakeKernelDefault
  \/ CallMakeKernelBundle
  \/ CallMakeKernelBundleDefault
  \/ CallMakeKernelBundleAgain
  \/ CallGetNativeMem
  \/ CallConvertBackend
  \/ CallConvertUrBackend

\* ------------------------------------------------------------ threads
\* The parameters and locals of the call a thread is in.
Frame ==
  [op |-> op, pc |-> pc, args |-> args, calls |-> calls, result |-> result,
   ret |-> ret, UrProgram |-> UrProgram, ProgramDevices |-> ProgramDevices,
   DevIdx |-> DevIdx, BinaryType |-> BinaryType, Res |-> Res]

\* The frame of a thread that has not called yet.
EntryFrame ==
  [op |-> "idle", pc |-> "idle", args |-> NoArgs, calls |-> <<>>,
   result |-> "none", ret |-> NoRet, UrProgram |-> NullHandle,
   ProgramDevices |-> <<>>, DevIdx |-> 0, BinaryType |-> "NONE",
   Res |-> "SUCCESS"]

Init ==
  /\ op = "idle"
  /\ pc = "idle"
  /\ args = NoArgs
  /\ calls = <<>>
  /\ result = "none"
  /\ ret = NoRet
  /\ UrProgram = NullHandle
  /\ ProgramDevices = <<>>
  /\ DevIdx = 0
  /\ BinaryType = "NONE"
  /\ Res = "SUCCESS"
  /\ progBin = <<>>
  /\ nativeDevs = <<>>
  /\ MMemObjs = <<>>
  /\ rerun = FALSE
  /\ cur = 1
  /\ saved = EntryFrame

Next ==
  \/ Calls
  \/ MakeKernelBundle
  \/ Importers
  \/ GetNativeMemNotFound
  \/ GetNativeMemQuery
  \/ ConvertBackend
  \/ ConvertUrBackend

Spec == Init /\ [][Next]_vars

\* ------------------------------------------------ two calling threads
\* Thread 1 calls make_kernel_bundle while thread 2 calls make_kernel, each
\* on its own native handle; a thread can be suspended between any two of
\* its steps.

\* A build in which the program handle is one static shared by all calls.
AutomaticVarsStaticProgram ==
  {"ProgramDevices", "Dev", "BinaryType", "Res"}

\* The locals of make_kernel_bundle and make_kernel: each is declared in the
\* function body, with automatic storage.
AutomaticVars ==
  {"UrProgram", "ProgramDevices", "Dev", "BinaryType", "Res"}

\* What a resumed thread finds in a local: its own value when the local has
\* automatic storage, the value last written by any thread otherwise.
Resumed(v, own, latest) == IF v \in AutomaticVars THEN own ELSE latest

ConcCallMakeKernelBundle ==
  /\ cur = 1 /\ pc = "idle"
  /\ \E b \in ContextBackends, st \in BundleStates,
        devs \in HandleLists(MaxConcDevices) :
       \E types \in [Range(devs) -> BinaryTypes] :
         /\ args' = [NoArgs EXCEPT !.Backend = b, !.ctxBackend = b,
                                   !.KeepOwnership = FALSE, !.State = st]
         /\ nativeDevs' = devs
         /\ progBin' = <<types>>
  /\ op' = "make_kernel_bundle"
  /\ pc' = "resolve"
  /\ UNCHANGED <<calls, result, ret, mkbLocals, MMemObjs, callers>>

ConcCallMakeKernel ==
  /\ cur = 2 /\ pc = "idle"
  /\ \E b \in ContextBackends, imgs \in ImageLists :
       args' = [NoArgs EXCEPT !.Backend = b, !.ctxBackend = b,
                              !.KeepOwnership = FALSE, !.images = imgs]
  /\ op' = "make_kernel"
  /\ pc' = "resolve"
  /\ UNCHANGED <<calls, result, ret, mkbLocals, backendState, MMemObjs,
                 callers>>

\* The running thread is suspended and the other one resumed.
Switch ==
  /\ saved.pc # "done"
  /\ cur' = 3 - cur
  /\ saved' = Frame
  /\ op' = saved.op
  /\ pc' = saved.pc
  /\ args' = saved.args
  /\ calls' = saved.calls
  /\ result' = saved.result
  /\ ret' = saved.ret
  /\ UrProgram' = Resumed("UrProgram", saved.UrProgram, UrProgram)
  /\ ProgramDevices' =
       Resumed("ProgramDevices", saved.ProgramDevices, ProgramDevices)
  /\ DevIdx' = Resumed("Dev", saved.DevIdx, DevIdx)
  /\ BinaryType' = Resumed("BinaryType", saved.BinaryType, BinaryType)
  /\ Res' = Resumed("Res", saved.Res, Res)
  /\ UNCHANGED <<backendState, MMemObjs, rerun>>

ThreadNext ==
  \/ ConcCallMakeKernelBundle
  \/ ConcCallMakeKernel
  \/ MakeKernelBundle
  \/ MakeKernelGetUrPlugin
  \/ MakeKernelProgram
  \/ MakeKernelCreate
  \/ MakeKernelRetain

NextConc ==
  \/ ThreadNext
  \/ Switch

SpecConc == Init /\ [][NextConc]_vars

\* ====================================================== properties
\* ------------------------------------------------ reading the call log
InMkb == op = "make_kernel_bundle"

\* Positions of the per-device binary-type queries that succeeded.
QueryIdx ==
  {i \in DOMAIN calls :
     calls[i].fn = "urProgramGetBuildInfo" /\ calls[i].res = "SUCCESS"}

LastQuery(i) == \A j \in QueryIdx : j <= i

\* The names of the calls issued for the device queried at position i: those
\* after the query and before the next query.
StepLen(i) ==
  IF \E j \in DOMAIN calls : j > i /\ calls[j].fn = "urProgramGetBuildInfo"
    THEN (CHOOSE j \in DOMAIN calls :
            /\ j > i /\ calls[j].fn = "urProgramGetBuildInfo"
            /\ \A k \in DOMAIN calls :
                 (k > i /\ calls[k].fn = "urProgramGetBuildInfo") => j <= k)
         - i - 1
    ELSE Len(calls) - i

StepFns(i) == [k \in 1..StepLen(i) |-> calls[i + k].fn]

\* The device queried at position i has been dealt with.
StepComplete(i) == ~LastQuery(i) \/ pc \in {"loop", "done"}

\* make_kernel_bundle failed with StateMismatch at the device queried at i.
MismatchAt(i) == LastQuery(i) /\ result = "StateMismatch"

OneStep(kind) == {<<ModernFn(kind)>>, <<ModernFn(kind), LegacyFn(kind)>>}

BuildCallFns ==
  LET b == SelectSeq(calls, LAMBDA c : c.fn \in BuildFns)
  IN [k \in DOMAIN b |-> b[k].fn]

\* C1: for every device and every (queried binary type, requested state)
\* pair of the state table, make_kernel_bundle does for that device what the
\* table says: (None, Object) one compile; (None, Executable) one build;
\* (CompiledObject|Library, Object) nothing; (CompiledObject|Library,
\* Executable) one link; (CompiledObject|Library, Input) StateMismatch;
\* (Executable, Executable) nothing; (Executable, Input|Object)
\* StateMismatch.  One compile/build/link is the modern call, followed or
\* not by its legacy substitute.
C1_StateTable ==
  InMkb =>
    \A i \in QueryIdx :
      StepComplete(i) =>
        LET bt == calls[i].out
            st == args.State
            fns == StepFns(i)
        IN /\ (bt = "NONE" /\ st = "object") =>
                (fns \in OneStep("compile") /\ ~MismatchAt(i))
           /\ (bt = "NONE" /\ st = "executable") =>
                (fns \in OneStep("build") /\ ~MismatchAt(i))
           /\ (bt \in {"COMPILED_OBJECT", "LIBRARY"} /\ st = "object") =>
                (fns = <<>> /\ ~MismatchAt(i))
           /\ (bt \in {"COMPILED_OBJECT", "LIBRARY"} /\ st = "executable") =>
                (fns \in OneStep("link") /\ ~MismatchAt(i))
           /\ (bt \in {"COMPILED_OBJECT", "LIBRARY"} /\ st = "input") =>
                (fns = <<>> /\ MismatchAt(i))
           /\ (bt = "EXECUTABLE" /\ st = "executable") =>
                (fns = <<>> /\ ~MismatchAt(i))
           /\ (bt = "EXECUTABLE" /\ st \in {"input", "object"}) =>
                (fns = <<>> /\ MismatchAt(i))

\* A two-device program, the first device built and the second linked, has
\* been returned as a bundle.
C1_Witness ==
  /\ InMkb /\ pc = "done" /\ result = "ok" /\ ~rerun
  /\ Len(ProgramDevices) = 2
  /\ BuildCallFns = <<"urProgramBuildExp", "urProgramLinkExp">>

\* C2: whenever make_kernel_bundle returns a bundle, the binary type the
\* returned program handle has for every device of the program is
\* compatible with the requested state.
Compatible(bt, st) ==
  /\ st = "executable" => bt = "EXECUTABLE"
  /\ st = "object" => bt \in {"COMPILED_OBJECT", "LIBRARY"}
  /\ st = "input" => bt \notin {"COMPILED_OBJECT", "LIBRARY", "EXECUTABLE"}

\* Every type the backend holds for the program is one of the four
\* enumerators of ProgramBinaryType.
OnlyEnumeratedTypes ==
  \A h \in DOMAIN progBin : \A d \in DOMAIN progBin[h] :
    progBin[h][d] # "OTHER"

C2_Compatible ==
  (InMkb /\ pc = "done" /\ result = "ok" /\ OnlyEnumeratedTypes) =>
    \A d \in Range(ret.devices) :
      Compatible(progBin[ret.handle][d.handle], ret.state)

\* C3: the modern entry point is called first; the legacy one is called if and
\* only if the modern call returned the unsupported-feature result, and then
\* once; any other non-success result of the modern call, and any non-success
\* result of the legacy call, fails with BuildFailed with no further
\* compile/build/link call.  A sole device reporting None with Executable
\* requested gets one modern build call, followed by one legacy build call
\* exactly when the modern one is unsupported.
KindOf(fn) ==
  CASE fn \in {"urProgramCompileExp", "urProgramCompile"} -> "compile"
    [] fn \in {"urProgramBuildExp", "urProgramBuild"} -> "build"
    [] OTHER -> "link"

C3_Fallback ==
  InMkb =>
    /\ \A i \in DOMAIN calls :
         LET c == calls[i] IN
         /\ c.fn \in LegacyFns =>
              /\ i > 1
              /\ calls[i - 1].fn = ModernFn(KindOf(c.fn))
              /\ calls[i - 1].res = "UNSUPPORTED_FEATURE"
         /\ (c.fn \in ModernFns /\ c.res = "UNSUPPORTED_FEATURE") =>
              \/ i = Len(calls) /\ pc = "legacy"
              \/ i < Len(calls) /\ calls[i + 1].fn = LegacyFn(KindOf(c.fn))
         /\ (c.fn \in ModernFns /\ c.res = "ERROR") =>
              /\ i = Len(calls)
              /\ pc = "check" \/ result = "BuildFailed"
         /\ (c.fn \in LegacyFns /\ c.res # "SUCCESS") =>
              /\ i = Len(calls)
              /\ pc = "check" \/ result = "BuildFailed"
    /\ result = "BuildFailed" =>
         /\ calls[Len(calls)].fn \in BuildFns
         /\ calls[Len(calls)].res # "SUCCESS"
    /\ (/\ pc = "done" /\ result = "ok" /\ ~rerun
        /\ Len(ProgramDevices) = 1 /\ args.State = "executable"
        /\ \E i \in QueryIdx : calls[i].out = "NONE") =>
         \/ /\ BuildCallFns = <<"urProgramBuildExp">>
            /\ calls[Len(calls)].res = "SUCCESS"
         \/ /\ BuildCallFns = <<"urProgramBuildExp", "urProgramBuild">>
            /\ calls[Len(calls) - 1].res = "UNSUPPORTED_FEATURE"
            /\ calls[Len(calls)].res = "SUCCESS"

\* The sole device reported None, the modern build was unsupported, the legacy
\* build succeeded and the bundle was returned.
C3_Witness ==
  /\ InMkb /\ pc = "done" /\ result = "ok" /\ ~rerun
  /\ Len(ProgramDevices) = 1 /\ args.State = "executable"
  /\ BuildCallFns = <<"urProgramBuildExp", "urProgramBuild">>

\* C4: make_kernel_bundle on a program whose every (queried binary type,
\* requested state) pair is a no-op pair of the state table issues no
\* compile, build or link call, modern or legacy; in particular the second
\* run, with the same requested state, on the program a successful run
\* produced issues none.
NoOpPair(bt, st) ==
  \/ bt \in {"COMPILED_OBJECT", "LIBRARY"} /\ st = "object"
  \/ bt = "EXECUTABLE" /\ st = "executable"

C4_Idempotent ==
  InMkb =>
    /\ (\A i \in QueryIdx : NoOpPair(calls[i].out, args.State)) =>
         BuildCallFns = <<>>
    /\ (rerun /\ OnlyEnumeratedTypes) => BuildCallFns = <<>>

\* The part of C4 that does not rest on what the first run produced: only
\* no-op pairs queried, no compile/build/link call.
C4_NoOpPairsNoCalls ==
  InMkb =>
    ((\A i \in QueryIdx : NoOpPair(calls[i].out, args.State)) =>
       BuildCallFns = <<>>)

\* C5: the first failure in make_kernel_bundle (a failed create, retain or
\* info query, a StateMismatch, a BuildFailed) ends the call: no backend
\* call follows it, no further device is queried, and no bundle is returned.
CallFailed(c) ==
  /\ c.res # "SUCCESS"
  /\ ~(c.fn \in ModernFns /\ c.res = "UNSUPPORTED_FEATURE")

MismatchPair(bt, st) ==
  \/ bt \in {"COMPILED_OBJECT", "LIBRARY"} /\ st = "input"
  \/ bt = "EXECUTABLE" /\ st \in {"input", "object"}

C5_FailureAborts ==
  InMkb =>
    /\ \A i \in DOMAIN calls :
         CallFailed(calls[i]) =>
           /\ i = Len(calls)
           /\ ret = NoRet
           /\ result \notin {"ok", "StateMismatch"}
           /\ pc = "done" =>
                result = IF calls[i].fn \in BuildFns THEN "BuildFailed"
                         ELSE "BackendCallFailed"
    /\ \A i \in QueryIdx :
         MismatchPair(calls[i].out, args.State) =>
           /\ i = Len(calls)
           /\ ret = NoRet
           /\ pc = "switch" \/ (pc = "done" /\ result = "StateMismatch")
    /\ (pc = "done" /\ result # "ok") => ret = NoRet
    /\ (pc = "done" /\ result = "ok") =>
         /\ ret.kind = "kernel_bundle"
         /\ Cardinality(QueryIdx) = Len(ProgramDevices)

\* The legacy link for the device before the last failed: the last device
\* was never queried and nothing was returned.
C5_Witness ==
  /\ InMkb /\ pc = "done" /\ result = "BuildFailed"
  /\ Len(ProgramDevices) = MaxDevices
  /\ Cardinality(QueryIdx) = MaxDevices - 1
  /\ calls[Len(calls)].fn = "urProgramLink"
  /\ ret = NoRet

\* C6: getUrPlugin yields a call table for opencl, level-zero, cuda and hip
\* and fails with UnsupportedBackend for every other BackendKind (the "all"
\* sentinel and native-CPU among them); so every import given an unsupported
\* backend fails before any backend call.
ImportOps ==
  {"make_platform", "make_device", "make_context", "make_queue",
   "make_event", "make_kernel_bundle", "make_kernel"}

SupportedBackends ==
  {"opencl", "ext_oneapi_level_zero", "ext_oneapi_cuda", "ext_oneapi_hip"}

C6_Resolver ==
  op \in ImportOps =>
    /\ args.Backend \notin SupportedBackends =>
         /\ calls = <<>>
         /\ ret = NoRet
         /\ pc \in {"resolve", "done"}
         /\ pc = "done" => result = "UnsupportedBackend"
    /\ args.Backend \in SupportedBackends =>
         /\ result # "UnsupportedBackend"
         /\ (pc = "done" /\ calls = <<>>) =>
              result \in {"InvalidConfiguration", "RuntimeError"}

\* make_kernel with the native-CPU backend failed with UnsupportedBackend.
C6_Witness ==
  /\ op = "make_kernel" /\ pc = "done"
  /\ args.Backend = "ext_oneapi_native_cpu"
  /\ result = "UnsupportedBackend"

CreateFns ==
  {"urPlatformCreateWithNativeHandle", "urDeviceCreateWithNativeHandle",
   "urContextCreateWithNativeHandle", "urQueueCreateWithNativeHandle",
   "urEventCreateWithNativeHandle", "urProgramCreateWithNativeHandle",
   "urKernelCreateWithNativeHandle"}

CreateIdx == {i \in DOMAIN calls : calls[i].fn \in CreateFns}

C9_ComputeIndexRejected ==
  (op = "make_queue" /\ args.computeIndex) =>
    /\ calls = <<>>
    /\ ret = NoRet
    /\ pc = "done" => result = "InvalidConfiguration"

\* C9 amended: make_queue with the compute-index property issues no backend
\* call and returns no queue whatever its other arguments are; it fails with
\* InvalidConfiguration when Backend is one of the four supported backends,
\* and with UnsupportedBackend otherwise (the resolver runs first).
C9_ComputeIndexRejectedAfterResolve ==
  (op = "make_queue" /\ args.computeIndex) =>
    /\ calls = <<>>
    /\ ret = NoRet
    /\ pc \in {"resolve", "validate", "done"}
    /\ pc = "done" =>
         result = IF args.Backend \in SupportedBackends
                    THEN "InvalidConfiguration"
                    ELSE "UnsupportedBackend"

\* An in-order queue with a device and kept ownership was rejected for its
\* compute-index property.
C9_Witness ==
  /\ op = "make_queue" /\ pc = "done"
  /\ args.computeIndex /\ args.inOrder /\ args.hasDevice /\ args.KeepOwnership
  /\ result = "InvalidConfiguration"
  /\ calls = <<>>

\* C10: getNativeMem fails with InvalidObjectReference, without a backend
\* call, when the requirement is not among the captured associations; when
\* it is, exactly one native-handle query is issued, on the memory object of
\* the first association whose requirement matches; the association table
\* is unchanged in both cases.
Registered(req) == \E i \in DOMAIN MMemObjs : MMemObjs[i][1] = req

FirstMemOf(req) ==
  MMemObjs[CHOOSE i \in DOMAIN MMemObjs :
             /\ MMemObjs[i][1] = req
             /\ \A j \in 1..(i - 1) : MMemObjs[j][1] # req][2]

C10_Lookup ==
  op = "getNativeMem" =>
    /\ ~Registered(args.Req) =>
         /\ calls = <<>>
         /\ ret = NoRet
         /\ pc = "done" => result = "InvalidObjectReference"
    /\ (Registered(args.Req) /\ pc = "done") =>
         /\ Len(calls) = 1
         /\ calls[1].fn = "urMemGetNativeHandle"
         /\ calls[1].obj = FirstMemOf(args.Req)
         /\ result = IF calls[1].res = "SUCCESS" THEN "ok"
                     ELSE "BackendCallFailed"
         /\ result = "ok" => ret.handle = FirstMemOf(args.Req)

C10_GetNativeMem ==
  /\ []C10_Lookup
  /\ [][op = "getNativeMem" => MMemObjs' = MMemObjs]_vars

\* The requirement was captured twice, with different memory objects, and
\* the query went to the first.
C10_Witness ==
  /\ op = "getNativeMem" /\ pc = "done" /\ result = "ok"
  /\ Len(MMemObjs) = 2
  /\ MMemObjs[1][1] = args.Req /\ MMemObjs[2][1] = args.Req
  /\ MMemObjs[1][2] # MMemObjs[2][2]
  /\ calls[1].obj = MMemObjs[1][2]

\* ------------------------------------------------ retain corrections
FnIdx(fn) == {i \in DOMAIN calls : calls[i].fn = fn}

CreateSucceeded == Len(calls) >= 1 /\ calls[1].res = "SUCCESS"

\* The retain, when there is one, is the call right after the create call.
RetainDone(fn, wanted) ==
  IF wanted
    THEN FnIdx(fn) = {2}
    ELSE FnIdx(fn) = {}

\* C11 as stated: in make_kernel_bundle exactly one program retain call is
\* issued, right after a successful create call and before any device
\* query, when the BackendKind of the import (Backend) is opencl, and none
\* for any other backend.
C11_RetainByBackend ==
  InMkb =>
    /\ ~CreateSucceeded => FnIdx("urProgramRetain") = {}
    /\ (CreateSucceeded /\ pc # "retain") =>
         RetainDone("urProgramRetain", args.Backend = "opencl")

\* C11 amended: in make_kernel_bundle exactly one program retain call is
\* issued, right after a successful create call and before any device
\* query, when the backend of the target context
\* (ContextImpl->getBackend()) is opencl, and none when it is any other
\* backend, whatever the Backend argument is.
C11_RetainByContext ==
  InMkb =>
    /\ ~CreateSucceeded => FnIdx("urProgramRetain") = {}
    /\ (CreateSucceeded /\ pc # "retain") =>
         RetainDone("urProgramRetain", args.ctxBackend = "opencl")

\* A level-zero import into an opencl context retained the program and went
\* on to query its devices.
C11_Witness ==
  /\ InMkb /\ pc = "done" /\ result = "ok"
  /\ args.Backend = "ext_oneapi_level_zero" /\ args.ctxBackend = "opencl"
  /\ FnIdx("urProgramRetain") = {2}
  /\ FnIdx("urProgramGetBuildInfo") # {}

\* C12: make_event issues exactly one retain call on the created event, after
\* the create call has succeeded, when and only when Backend is opencl; no
\* retain for any other supported backend, and none when the create failed.
C12_EventRetain ==
  op = "make_event" =>
    /\ ~CreateSucceeded => FnIdx("urEventRetain") = {}
    /\ (CreateSucceeded /\ pc # "retain") =>
         RetainDone("urEventRetain", args.Backend = "opencl")
    /\ FnIdx("urEventRetain") # {} =>
         /\ calls[1].fn = "urEventCreateWithNativeHandle"
         /\ calls[1].res = "SUCCESS"
    /\ (pc = "done" /\ result = "ok") =>
         Len(calls) = IF args.Backend = "opencl" THEN 2 ELSE 1

\* An opencl event imported into a level-zero context was retained once and
\* returned.
C12_Witness ==
  /\ op = "make_event" /\ pc = "done" /\ result = "ok"
  /\ args.Backend = "opencl" /\ args.ctxBackend = "ext_oneapi_level_zero"
  /\ FnIdx("urEventRetain") = {2}

\* ------------------------------------------------ objects per import
SingleObjectOps ==
  {"make_platform", "make_device", "make_context", "make_queue",
   "make_event", "make_kernel"}

\* Positions of the create-from-native-handle calls that made an object.
CreatedIdx == {i \in CreateIdx : calls[i].res = "SUCCESS"}

\* C13: each of make_platform, make_device, make_context, make_queue,
\* make_event and make_kernel issues at most one create-from-native-handle
\* call (no retry); a call that returns a managed object has created exactly
\* one backend object; a call that fails has created none and returns no
\* managed object.
C13_OneObjectOrNone ==
  (op \in SingleObjectOps) =>
    /\ Cardinality(CreateIdx) <= 1
    /\ (pc = "done" /\ result = "ok") =>
         /\ Cardinality(CreatedIdx) = 1
         /\ ret.kind # "none"
    /\ (pc = "done" /\ result # "ok") =>
         /\ CreatedIdx = {}
         /\ ret = NoRet

\* ------------------------------------------------ bundle devices
\* C14: the devices of the kernel bundle make_kernel_bundle returns are the
\* devices the backend holds for the imported program: one managed device
\* per handle, in the backend's order, whatever the arguments of the call
\* and whatever compile, build or link calls were issued.
C14_BundleDevices ==
  (InMkb /\ pc = "done" /\ result = "ok") =>
    /\ Len(ret.devices) = Len(nativeDevs)
    /\ \A i \in DOMAIN nativeDevs :
         ret.devices[i] = [kind |-> "device", handle |-> nativeDevs[i]]

\* A bundle over two devices the backend lists in descending order, returned
\* after a link call.
C14_Witness ==
  /\ InMkb /\ pc = "done" /\ result = "ok"
  /\ nativeDevs = <<2, 1>>
  /\ Len(ret.devices) = 2
  /\ \E i \in DOMAIN calls : calls[i].fn = "urProgramLinkExp"

\* ------------------------------------------------ order of the devices
AllQueryIdx == FnIdx("urProgramGetBuildInfo")

QueryCalls == SelectSeq(calls, LAMBDA c : c.fn = "urProgramGetBuildInfo")

\* The position of the binary-type query that governs the call at i: the last
\* one before i (0 when there is none).
QueryBefore(i) ==
  IF \E j \in AllQueryIdx : j < i
    THEN CHOOSE j \in AllQueryIdx :
           j < i /\ \A k \in AllQueryIdx : k < i => k <= j
    ELSE 0

\* C16: make_kernel_bundle queries the devices in the order of the backend's
\* device list, one query per device and none twice; every compile, build or
\* link call lies between the query of its device and the query of the next
\* device: a modern call names the device queried last, a legacy call
\* follows the modern call of that device directly.
C16_DeviceOrder ==
  InMkb =>
    /\ Len(QueryCalls) <= Len(nativeDevs)
    /\ \A k \in DOMAIN QueryCalls : QueryCalls[k].dev = nativeDevs[k]
    /\ \A k1, k2 \in DOMAIN QueryCalls :
         k1 # k2 => QueryCalls[k1].dev # QueryCalls[k2].dev
    /\ \A i \in DOMAIN calls :
         /\ calls[i].fn \in ModernFns =>
              /\ QueryBefore(i) = i - 1
              /\ calls[i].dev = calls[i - 1].dev
         /\ calls[i].fn \in LegacyFns =>
              /\ QueryBefore(i) = i - 2
              /\ calls[i - 1].fn \in ModernFns
    /\ pc \in {"switch", "legacy", "check"} =>
         /\ AllQueryIdx # {}
         /\ \A j \in AllQueryIdx :
              calls[j].dev = CurDev => j = QueryBefore(Len(calls) + 1)

\* Two devices listed in descending order: a build for the first listed
\* device was over before the second was queried.
C16_Witness ==
  /\ InMkb /\ pc = "done" /\ result = "ok"
  /\ nativeDevs = <<2, 1>>
  /\ Len(QueryCalls) = 2
  /\ \E i \in DOMAIN calls :
       /\ calls[i].fn \in LegacyFns
       /\ calls[i + 1].fn = "urProgramGetBuildInfo"
       /\ calls[i + 1].dev = 1

\* ------------------------------------------------ link replaces the handle
LinkIdx ==
  {i \in DOMAIN calls : calls[i].fn \in LinkFns /\ calls[i].res = "SUCCESS"}

\* The program handle in force when the call at position i is issued: the
\* result of the last successful link before i, the imported handle when
\* there is none.
HandleAt(i) ==
  IF \E j \in LinkIdx : j < i
    THEN calls[CHOOSE j \in LinkIdx :
                 j < i /\ \A k \in LinkIdx : k < i => k <= j].phProgram
    ELSE args.NativeHandle

\* C17: a successful link call, modern or legacy, makes the linked program
\* the current program handle: every later call of the same
\* make_kernel_bundle call (binary-type query, compile, build, link) is
\* issued on the result of the last successful link before it, and the
\* returned kernel bundle wraps the result of the last successful link, or
\* the imported handle when no link succeeded.
C17_LinkReplaces ==
  InMkb =>
    /\ \A i \in DOMAIN calls : i > 1 => calls[i].obj = HandleAt(i)
    /\ \A j \in LinkIdx :
         /\ calls[j].phProgram # NullHandle
         /\ calls[j].phProgram # calls[j].obj
    /\ (Len(calls) >= 1 /\ calls[1].res = "SUCCESS") =>
         UrProgram = HandleAt(Len(calls) + 1)
    /\ (pc = "done" /\ result = "ok") =>
         ret.handle = HandleAt(Len(calls) + 1)

\* The first device was linked by the legacy call, the second queried and
\* linked on the new handle, and the bundle wraps the second link's result.
C17_Witness ==
  /\ InMkb /\ pc = "done" /\ result = "ok"
  /\ Cardinality(LinkIdx) = 2
  /\ \E i \in LinkIdx : calls[i].fn = "urProgramLink"
  /\ \E i \in AllQueryIdx :
       calls[i].obj # args.NativeHandle /\ calls[i].dev = nativeDevs[2]
  /\ ret.handle # args.NativeHandle

\* ------------------------------------------------ make_kernel's program
KernelCreateIdx == FnIdx("urKernelCreateWithNativeHandle")

\* C18: make_kernel for level-zero with a bundle of any image count but one
\* fails with a runtime error before the kernel create call; with one image
\* the create call receives that image's program handle.  For every other
\* supported backend the create call receives the null program handle,
\* whatever the image count.
C18_KernelProgram ==
  (op = "make_kernel") =>
    /\ \A i \in KernelCreateIdx :
         IF args.Backend = "ext_oneapi_level_zero"
           THEN /\ Len(args.images) = 1
                /\ calls[i].prog = args.images[1]
                /\ calls[i].prog # NullHandle
           ELSE calls[i].prog = NullHandle
    /\ (/\ args.Backend = "ext_oneapi_level_zero"
        /\ Len(args.images) # 1
        /\ pc \notin {"resolve", "images"}) =>
         /\ pc = "done" /\ result = "RuntimeError"
         /\ calls = <<>>
    /\ result = "RuntimeError" =>
         /\ args.Backend = "ext_oneapi_level_zero"
         /\ Len(args.images) # 1
    /\ (pc = "done" /\ result = "ok") => KernelCreateIdx = {1}

\* A level-zero kernel made from a bundle of one image: the create call got
\* the image's program.
C18_Witness ==
  /\ op = "make_kernel" /\ pc = "done" /\ result = "ok"
  /\ args.Backend = "ext_oneapi_level_zero"
  /\ Len(args.images) = 1
  /\ calls[1].fn = "urKernelCreateWithNativeHandle"
  /\ calls[1].prog = args.images[1]

\* ------------------------------------------------ devices left alone
\* The binary type and requested state for which the switch does nothing
\* and the table has no row.
Untouched(bt, st) ==
  \/ bt = "NONE" /\ st = "input"
  \/ bt \notin {"NONE", "COMPILED_OBJECT", "LIBRARY", "EXECUTABLE"}

UntouchedInv ==
  InMkb =>
    \A i \in QueryIdx :
      Untouched(calls[i].out, args.State) =>
        /\ StepFns(i) = <<>>
        /\ (\A j \in AllQueryIdx : j <= i) =>
             /\ pc \in {"switch", "loop", "done"}
             /\ result \in {"none", "ok"}

UntouchedStep ==
  (InMkb /\ pc = "switch" /\ Untouched(BinaryType, args.State)) =>
    /\ pc' = "loop"
    /\ DevIdx' = DevIdx + 1
    /\ calls' = calls
    /\ result' = result
    /\ UrProgram' = UrProgram

\* C19: for a device whose queried binary type is None with Input requested,
\* and for a device whose queried binary type is none of None,
\* CompiledObject, Library and Executable, make_kernel_bundle issues no
\* compile, build or link call and does not fail: its next step is the next
\* device.
C19_Untouched == []UntouchedInv /\ [][UntouchedStep]_vars

\* The first device reported a type outside the enumeration, the second was
\* queried after it, and the bundle was returned with no compile, build or
\* link call.
C19_Witness ==
  /\ InMkb /\ pc = "done" /\ result = "ok"
  /\ args.State = "executable"
  /\ Len(QueryCalls) = 2
  /\ QueryCalls[1].out = "OTHER"
  /\ BuildCallFns = <<>>

\* ------------------------------------------------ bounded work
CountOf(fns, S) == Cardinality({k \in DOMAIN fns : fns[k] \in S})

\* C20: in a make_kernel_bundle call over N devices each device gets at most
\* one modern and at most one legacy call, of one kind; at most 2*N compile,
\* build and link calls are issued; no compile call is issued when
\* Executable is requested, no build or link call when Object is requested.
C20_BoundedWork ==
  InMkb =>
    /\ \A i \in DOMAIN calls : calls[i].fn \in BuildFns => QueryBefore(i) # 0
    /\ \A i \in AllQueryIdx :
         LET fns == StepFns(i) IN
           /\ \A k \in DOMAIN fns : fns[k] \in BuildFns
           /\ CountOf(fns, ModernFns) <= 1
           /\ CountOf(fns, LegacyFns) <= 1
           /\ \A k1, k2 \in DOMAIN fns : KindOf(fns[k1]) = KindOf(fns[k2])
    /\ Len(BuildCallFns) <= 2 * Len(nativeDevs)
    /\ \A k \in DOMAIN BuildCallFns :
         /\ args.State = "executable" => KindOf(BuildCallFns[k]) # "compile"
         /\ args.State = "object" => KindOf(BuildCallFns[k]) = "compile"

\* Executable requested over two devices: a modern build for the first, a
\* modern build and its legacy substitute for the second.
C20_Witness ==
  /\ InMkb /\ pc = "done" /\ result = "ok"
  /\ args.State = "executable"
  /\ BuildCallFns =
       <<"urProgramBuildExp", "urProgramBuildExp", "urProgramBuild">>

\* ------------------------------------------------ concurrent imports
\* A resumed thread finds the parameters and locals it was suspended with.
ResumesWhereSuspended == (cur' # cur) => (Frame' = saved)

\* A step of the running thread is a step of that call running alone, and
\* leaves the suspended thread's parameters and locals as they were; a step
\* of make_kernel leaves the backend's program as it was.
StepsAlone ==
  (cur' = cur) =>
    /\ ThreadNext
    /\ saved' = saved
    /\ (op = "make_kernel") => UNCHANGED backendState

====
